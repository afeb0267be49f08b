\* A command is passed on without its parameters.
CONSTANTS
  Line <- MCLine
  ChannelName = {"#A", "#B"}
  BadChannel = {"#BAD"}
  NickName = {"ANN"}
  Message = {":HI", ":!HELP"}
  BotCall = {":!HELP"}
SPECIFICATION Spec
VIEW MembersView
PROPERTY ParametersGiven
