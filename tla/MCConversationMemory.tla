----------------------- MODULE MCConversationMemory -----------------------
\* ConversationMemory on small instances.
EXTENDS ConversationMemory, TLC
=============================================================================
