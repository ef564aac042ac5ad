CONSTANTS
    Inputs = {"ca", "a"}
    Regs = {"r1"}
    Mems = {}
    Wires = {"t", "y1", "y2"}
    Outputs = {"y1", "y2"}
    Declared = {"t"}
    Val = {0, 1}
    Zero = 0
    Comb <- PackedComb
    Plain <- PackedPlain
    Word <- OneWord
    Seqs <- ToggleSeqs
    EdgeOrder <- ToggleOrder
SPECIFICATION EvalSpec
INVARIANT OutputsSettled
