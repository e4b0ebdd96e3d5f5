CONSTANTS
    qa = qa
    qb = qb
    qc = qc
    Queue = {qa, qb, qc}
    Weight <- ThreeAndTwo
    Cap = 6
    RingSize = 8
    U16 = 10
    MaxBacklog = 6
SPECIFICATION Spec
INVARIANT TypeOK
PROPERTIES ShareGuaranteed ProportionalWhenFull OvershootBounded
