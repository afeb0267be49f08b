\* Three clients on one channel, four nicknames.
CONSTANTS
  Client = {c1, c2, c3}
  Channel = {x}
  Nick = {n1, n2, n3, n4}
  Topic = {}
  NoNick = NoNick
  NoTopic = NoTopic
  NoChannel = NoChannel
  MaxNames = 1
SPECIFICATION PlainSpec
SYMMETRY Symmetry
VIEW RosterView
INVARIANTS KnowsWhere MembersKnown NobodyInvented
