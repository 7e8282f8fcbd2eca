SPECIFICATION EventsSpec
CONSTANTS
  Signals = {1}
  Bits = {"b0", "b1"}
  Masks = {{"b0"}, {"b1"}}
  SpinBound = 1
  MaxEvents = 2
INVARIANT MailFlagged
INVARIANT LabelsMerged
INVARIANT NoMissedIrq
PROPERTY OverwriteOnlyInRace
