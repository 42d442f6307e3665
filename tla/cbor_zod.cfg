SPECIFICATION CborSpec
CONSTANTS
    Inline = 3
    Radix = 4
    Objects <- MCZodObjects
INVARIANT DecoratedComesBack
CHECK_DEADLOCK FALSE
