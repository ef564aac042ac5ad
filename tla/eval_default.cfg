CONSTANTS
    Inputs = {"ca", "a"}
    Regs = {"r1"}
    Mems = {}
    Wires = {"y1"}
    Outputs = {"y1"}
    Declared = {}
    Val = {0, 1}
    Zero = 0
    Comb <- DefaultComb
    Plain <- DefaultPlain
    Word <- OneWord
    Seqs <- ToggleSeqs
    EdgeOrder <- ToggleOrder
SPECIFICATION EvalSpec
INVARIANT OutputsSettled
