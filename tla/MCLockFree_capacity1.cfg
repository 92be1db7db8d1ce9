\* The smallest queue the static_assert admits, one producer, one consumer.
CONSTANTS
    Producers = {p1}
    Consumers = {c1}
    Items = {x, y}
    NoItem = NoItem
    Capacity = 1
    Ring = 2
    Producer = p1
    Consumer = c1
SPECIFICATION Spec
CHECK_DEADLOCK FALSE
PROPERTY MPMCImplementsQueue
