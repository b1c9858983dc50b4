----------------------------- MODULE MCCommands -----------------------------
(* The command model on a small instance: the root service and a window    *)
(* service that can read the credentials.                                  *)
EXTENDS Commands

CONSTANTS root, window

\* The administrator isolates the host and releases it, restarts the agent and
\* wipes it, or asks for a collection: every kind of effect, and fewer pairs.
Menu ==
    issued' # issued =>
        type'[issued'] \in
            IF issued = 0 THEN {"quarantine_enable", "restart_agent", "collect_now"}
            ELSE IF type[1] = "quarantine_enable" THEN {"quarantine_release"}
            ELSE IF type[1] = "restart_agent" THEN {"wipe_agent"}
            ELSE {}

\* Commands expire where the order matters, in the first of these stories, and
\* without another failure.
Expiry == now' > 0 => failures' = 0 /\ issued > 0 /\ type[1] = "quarantine_enable"

\* Once the key is no longer the first, nobody issues a second command; with
\* one command at most a second failure may follow.
Rekeyed ==
    /\ serverKey > 1 => issued' \in {issued, 1}
    /\ failures' > 1 => serverKey > 1 /\ issued <= 1
=============================================================================
