\* Three clients on one channel.
CONSTANTS
  Client = {c1, c2, c3}
  Channel = {x}
  Nick = {n1, n2, n3}
  Topic = {t1}
  NoNick = NoNick
  NoTopic = NoTopic
  NoChannel = NoChannel
  MaxNames = 1
SPECIFICATION Spec
SYMMETRY Symmetry
VIEW StateView
INVARIANTS TypeOK RosterAgreement ChannelIffOccupied RolesDisjoint MembersRegistered NickUnique RegisteredHaveNick
PROPERTIES RepliesScheduled InvitationAdmitsOnce DeparturesAnnounced ArrivalsAnnounced PowerFromOperators NickChangeAnnounced QuitAnnounced
