CONSTANT OtherKeys <- MCOtherKeys
SPECIFICATION Spec
INVARIANT ParamsPreserved
