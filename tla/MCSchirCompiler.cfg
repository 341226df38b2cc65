CONSTANT Programs <- MCPrograms
SPECIFICATION Spec
INVARIANTS OutputAgrees OperandsSound
PROPERTY Finishes
