---------------------------- MODULE MCStreamRelay ----------------------------
EXTENDS StreamRelay

AllClients == {"anthropic", "chat", "gemini", "responses"}
AllUpstreams == {"anthropic", "chat", "responses", "json"}

=============================================================================
