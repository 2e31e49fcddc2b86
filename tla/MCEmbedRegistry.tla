--------------------------- MODULE MCEmbedRegistry ---------------------------
EXTENDS EmbedRegistry
=============================================================================
