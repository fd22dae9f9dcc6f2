SPECIFICATION Spec
CONSTANT NumBlocks = 4
INVARIANTS TypeOK ListSound
PROPERTY OrderSpec
