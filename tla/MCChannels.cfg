\* Two clients on two channels, with lists of two names.
CONSTANTS
  Client = {c1, c2}
  Channel = {x, y}
  Nick = {n1, n2}
  Topic = {}
  NoNick = NoNick
  NoTopic = NoTopic
  NoChannel = NoChannel
  MaxNames = 2
SPECIFICATION Spec
SYMMETRY Symmetry
VIEW StateView
INVARIANTS RosterAgreement RolesDisjoint MembersRegistered
PROPERTIES DeparturesAnnounced QuitAnnounced ImplementsMembership
