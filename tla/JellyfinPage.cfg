\* Two sessions and two items over several page loads; ExtensionSignIn
\* checks the types, as part of ExtTypeOK.
SPECIFICATION FairSpec
CONSTANTS
  PlayIds = {p1, p2}
  Gens = {g1, g2}
  None = None
  MaxAttempts = 4
  MaxPlays = 3
  MaxOutbox = 1
PROPERTIES ReadyIsAdopted AnsweredOnce OvertakenPlayStops BootstrapConcludes
