CONSTANT NumBB = 4
SPECIFICATION MCSpec
INVARIANT LinksConsistent
