CONSTANTS
    Programs <- Aliases
    ModuleName <- MCModuleName
    Builtins <- MCBuiltins
SPECIFICATION Spec
INVARIANT ItemsKnown
