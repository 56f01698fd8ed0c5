SPECIFICATION Spec
CONSTANTS
    Items = {i1, i2, i3}
    Lists = {l1}
    Texts = {t1}
    Limit = 3
PROPERTIES DeleteRemoves
CHECK_DEADLOCK FALSE
