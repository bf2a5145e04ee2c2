---- MODULE MCFrameRetrace ----
EXTENDS FrameRetraceAnswers

Everything == AllPanels
PartsOf == [p \in Panels |-> 1]
====
