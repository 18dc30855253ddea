\* Liveness: requests, exit and unreadable messages, the real failure limit.
CONSTANTS
  w1 = w1
  w2 = w2
  Main = Main
  Unreadable = Unreadable
  Worker <- MCWorkers
  Thread <- MCThreads
  MaxFailed = 3
  MaxInput <- MCMaxInput
  Inputs <- MCLiveInputs
SPECIFICATION FairSpec
PROPERTIES
  EofExits
  AnsweredOrExited
\* A server whose client keeps the stream open waits for ever; a destroyed
\* one takes no step.
CHECK_DEADLOCK FALSE
