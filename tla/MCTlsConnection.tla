--------------------------- MODULE MCTlsConnection ---------------------------
EXTENDS TlsConnection

R(kind, size) == [kind |-> kind, size |-> size]

\* Handshake records, then data with or without a ticket between, and close_notify or not;
\* a data record of two units is rustls's limit.
MCScripts == {
  <<R("hs", 1), R("data", 2), R("data", 1), R("close", 1)>>,
  <<R("hs", 1), R("data", 2), R("data", 2), R("data", 2), R("close", 1)>>,
  <<R("hs", 1), R("hs", 2), R("data", 2), R("close", 1)>>,
  <<R("hs", 1), R("data", 1), R("ticket", 1), R("data", 2), R("data", 2)>>}

\* More records than rustls has room for the plaintext of.
MCFullScripts == {<<R("hs", 1), R("data", 2), R("data", 2), R("data", 2), R("data", 2), R("data", 2)>>}
=============================================================================
