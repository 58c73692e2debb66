SPECIFICATION Spec
CONSTANTS
    Kinds = {"email"}
    Fields = {to, body}
    Required = {to}
    Texts = {text}
    Blank = Blank
    None = None
INVARIANT AllFieldsPreserved
CHECK_DEADLOCK FALSE
