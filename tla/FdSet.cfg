\* Seven descriptors: every set of up to four ranges and, in ClosesExactly, every
\* limit.
CONSTANT MaxFd = 6
SPECIFICATION Spec
INVARIANTS
    TypeOK
    Separated
    ClosesExactly
PROPERTIES
    DescriptorSetSpec
    RangesExact
