SPECIFICATION Spec
CONSTANT MaxFrames = 2
INVARIANT CapturedIsEncoded
