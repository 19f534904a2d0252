CONSTANTS
    Trials = {t1, t2}
    NoTrial = NoTrial
    Users = {u1, u2}
    NoOne = NoOne
    Assistants = {a1}
    AgentOf <- MCAgentOf
    Flows = {f1, f2}
    AnswersPerTrial = 2
    ConcurrentTurns = 1
SPECIFICATION Spec
SYMMETRY Symmetry
INVARIANTS OneHome TurnsCounted CarryKept
