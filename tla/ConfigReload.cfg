\* Two command-line processes, two changes of the file, one of the engine.
CONSTANTS
  Id = {a, b, c}
  Darwin = FALSE
  Launcher = {p1, p2}
  Answers <- MCAnswers
  HandWritten <- MCHandWritten
  Found <- MCFound
  MaxWrites = 2
  MaxEdits = 1
  MaxEngine = 1
SYMMETRY Symmetry
SPECIFICATION Spec
INVARIANTS
  RefsResolve
  LaunchIsCurrent
  LaunchIsAsShown
  LaunchIsConfined
  
