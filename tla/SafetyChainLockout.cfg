SPECIFICATION Spec
CONSTANTS NavRetries = 1
PROPERTIES RealEStopIsConfirmed
