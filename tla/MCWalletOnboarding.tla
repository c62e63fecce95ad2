------------------------ MODULE MCWalletOnboarding ------------------------
(* Small instances of WalletOnboarding.                                    *)
EXTENDS WalletOnboarding, TLC

CONSTANTS u1, u2, t1, t2, t3, b1, b2, a1, a2, a3

\* Two tabs of one browser, and a tab of another.
TwoBrowsers == (t1 :> b1 @@ t2 :> b1 @@ t3 :> b2)

AllFaults == {"fetch", "wallet", "job", "commit", "commitAck", "status"}

=============================================================================
