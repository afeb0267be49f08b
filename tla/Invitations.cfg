\* Two clients on one channel; the address of one is given to a new connection.
CONSTANTS
  Client = {c1, c2}
  Channel = {x}
  Nick = {n1, n2}
  Topic = {}
  NoNick = NoNick
  NoTopic = NoTopic
  NoChannel = NoChannel
  MaxNames = 1
SPECIFICATION HistorySpec
PROPERTY OnlyGuestsEnter
