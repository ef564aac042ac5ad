CONSTANTS
    Inputs = {"ca", "a"}
    Regs = {"r1"}
    Mems = {}
    Wires = {"t", "y1", "y2"}
    Outputs = {"y1", "y2"}
    Declared = {}
    Val = {0, 1}
    Zero = 0
    Comb <- SharedComb
    Plain <- SharedPlain
    Word <- OneWord
    Seqs <- ToggleSeqs
    EdgeOrder <- ToggleOrder
SPECIFICATION EvalSpec
INVARIANT OutputsSettled
