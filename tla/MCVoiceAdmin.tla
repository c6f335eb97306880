---------------------------- MODULE MCVoiceAdmin -----------------------------
EXTENDS VoiceAdmin
=============================================================================
