------------------------ MODULE MCVoiceTyping ------------------------
EXTENDS VoiceTyping
======================================================================
