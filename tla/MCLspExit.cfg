\* An exit notification that is lost.
CONSTANTS
  w1 = w1
  w2 = w2
  Main = Main
  Unreadable = Unreadable
  Worker <- MCOneWorker
  Thread <- MCTwoThreads
  MaxFailed = 3
  MaxInput <- MCMaxInput
  Inputs <- MCExitInputs
SPECIFICATION FairSpec
PROPERTY ExitHonoured
\* A server whose client keeps the stream open waits for ever; a destroyed
\* one takes no step.
CHECK_DEADLOCK FALSE
