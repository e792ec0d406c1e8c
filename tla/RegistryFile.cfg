CONSTANTS
    Edits = {e1, e2, e3}
    Commands = {listen, scan, tag}
    Listeners = {listen}
SPECIFICATION Spec
INVARIANTS CausallyClosed LostOnlyByWipe
PROPERTY CommitsAtomically
CHECK_DEADLOCK FALSE
