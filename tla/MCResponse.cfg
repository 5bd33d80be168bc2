CONSTANTS
    HeaderLen = 4
    FormLen = 2
    Sizes = {0, 2, 3}
SPECIFICATION Spec
INVARIANTS
    BytesInOrder
    NoMappingLeft
