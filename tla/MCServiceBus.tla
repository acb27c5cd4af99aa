---------------------------- MODULE MCServiceBus ----------------------------
(***************************************************************************)
(* Small instances of ServiceBus for TLC.                                  *)
(***************************************************************************)
EXTENDS ServiceBus, TLC

NoString == [endpoint |-> NoNs, key |-> NoKey, sig |-> NoToken]

\* One good way to open: hostname and a token that is still valid.
SignedOpens ==
    {[host |-> n, cs |-> NoString, tok |-> [signer |-> k, exp |-> MaxTime + 1],
      lite |-> NoToken] : n \in Ns, k \in Key}

\* Hostnames and connection strings with at most one credential: a key to mint
\* a token from, a signature in the string, or a token property of either name.
MixedOpens ==
    LET tokens == [signer : Key, exp : {1}]
        open(h, e, k, s, t, l) ==
            [host |-> h, cs |-> [endpoint |-> e, key |-> k, sig |-> s], tok |-> t, lite |-> l]
        any(h, e) ==
            {open(h, e, k, NoToken, NoToken, NoToken) : k \in Key \cup {NoKey}}
            \cup {open(h, e, NoKey, t, NoToken, NoToken) : t \in tokens}
            \cup {open(h, e, NoKey, NoToken, t, NoToken) : t \in tokens}
            \cup {open(h, e, NoKey, NoToken, NoToken, t) : t \in tokens}
    IN  UNION {any(h, e) : h \in Ns \cup {NoNs}, e \in Ns \cup {Listener, NoNs}}

KeySymmetry == Permutations(Key) \cup Permutations(Req)

=============================================================================
