\* Safety: every sequence of three messages, and three messages about an open
\* document, with two threads.
CONSTANTS
  w1 = w1
  w2 = w2
  Main = Main
  Unreadable = Unreadable
  Worker <- MCWorkers
  Thread <- MCThreads
  MaxFailed = 1
  MaxInput <- MCMaxInput
  Inputs <- MCSafetyInputs
SPECIFICATION Spec
SYMMETRY MCSymmetry
INVARIANTS
  FreshReads
  EditsInOrder
  OvertakesFew
  AnsweredAtMostOnce
  LifecycleRespected
  ExitJustified
\* A server whose client keeps the stream open waits for ever; a destroyed
\* one takes no step.
CHECK_DEADLOCK FALSE
