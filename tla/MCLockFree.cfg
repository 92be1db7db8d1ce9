\* Two producers and two consumers, or one of each for the SPSC queue, four items,
\* and rings that fill up and are reused.
CONSTANTS
    Producers = {p1, p2}
    Consumers = {c1, c2}
    Items = {x, y, z, v}
    NoItem = NoItem
    Capacity = 2
    Ring = 2
    Producer = p1
    Consumer = c1
SPECIFICATION Spec
SYMMETRY Symmetry
CHECK_DEADLOCK FALSE
INVARIANTS
    TypeOK
    DataOwnedAlone
PROPERTIES
    ImplementsBuffer
    AnswersAreHonest
