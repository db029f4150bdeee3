CONSTANT PTSize = 4
SPECIFICATION Spec
PROPERTY ReturnsToPrompt
