SPECIFICATION Spec
CONSTANT MaxEnv = 0
PROPERTY IdFollowed
