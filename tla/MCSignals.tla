------------------------------ MODULE MCSignals ------------------------------
EXTENDS Signals
MCActions == {IGNORE, [handler |-> 1, onstack |-> TRUE], [handler |-> 2, onstack |-> FALSE]}
MCFirstActs ==
    [s \in Sigs |-> IF s \in CallSigs THEN [handler |-> 1, onstack |-> TRUE]
                    ELSE [handler |-> 2, onstack |-> FALSE]]
MCAltStacks == {[sp |-> MainSp + 2, size |-> 3]}

\* The instance is one the theorems about stacks speak of.
ASSUME StacksAssumption == LargeStacks /\ StacksApart
=============================================================================
