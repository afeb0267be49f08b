\* All lines of MCParser in every order.
CONSTANTS
  Line <- MCLine
  ChannelName = {"#A", "#B"}
  BadChannel = {"#BAD"}
  NickName = {"ANN"}
  Message = {":HI", ":!HELP"}
  BotCall = {":!HELP"}
SPECIFICATION Spec
VIEW MembersView
PROPERTIES LineAlone Understood NamesFit
