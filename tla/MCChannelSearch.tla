-------------------------- MODULE MCChannelSearch --------------------------
EXTENDS ChannelSearch

MCSearchChannels == <<1, 6, 11>>
MCSearchInterval == [controller |-> 2, display |-> 1]
MCAccessPoints == [controller |-> {1}, display |-> {11}]
=============================================================================
