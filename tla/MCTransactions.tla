--------------------------- MODULE MCTransactions ---------------------------
(* Small instances of Transactions for TLC. *)
EXTENDS Transactions, TLC

CONSTANTS r1, r2, alice, bob

\* alice is who calls; bob is somebody else.
CallOf(o, role, u, b) == [op |-> o, token |-> "good", caller |-> alice, role |-> role,
                          userId |-> u, body |-> b, id |-> NoTxn]
GetOf(id, b) == [CallOf("get", "USER", NoUser, b) EXCEPT !.id = id]

\* Creations that may be saved: for oneself, and by an ADMIN for bob.
MCSaves == {CallOf("create", "USER", NoUser, "valid"),
            CallOf("create", "ADMIN", bob, "valid")}

\* One call for every way a creation, a listing or a reading can go.
MCCalls ==
    MCSaves
    \cup {CallOf("create", role, u, b) :
              role \in Role, u \in {NoUser, bob}, b \in {"invalid", "valid"}}
    \cup {CallOf("create", "USER", alice, b) : b \in Body}
    \cup {CallOf("list", "USER", bob, "valid"),
          CallOf("list", "ADMIN", bob, "valid"),
          CallOf("list", "USER", NoUser, "malformed")}
    \cup {GetOf(NoTxn, "malformed"), GetOf(r1, "valid")}
    \cup {[CallOf("create", "ADMIN", bob, "valid") EXCEPT !.token = "bad"]}

\* Creations and listings of two requests at a time.
MCMixed == MCSaves \cup {CallOf("list", "USER", bob, "valid"),
                         CallOf("list", "ADMIN", bob, "valid")}

\* r1 creates and somebody reads it.
MCCreateThenGet == {CallOf("create", "USER", NoUser, "valid"), GetOf(r1, "valid")}

MCSymmetry == Permutations({r1, r2})
=============================================================================
