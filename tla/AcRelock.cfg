SPECIFICATION Spec
CONSTANT MaxEnv = 1
PROPERTY RelockRestarts
