----------------------------- MODULE IpBanAudit -----------------------------
(***************************************************************************)
(* IpBan with a history variable, for what the documentation promises      *)
(* about a ban that is lifted while other calls look at it.                *)
(***************************************************************************)
EXTENDS IpBan

VARIABLE lifted    \* <<p, ip>> after unbanIp in p, until a ban of ip is issued

auditVars == <<vars, lifted>>

BanInFlight(ip) == \E c \in Calls : call[c].pc = "banWrite" /\ call[c].ip = ip

AuditInit == Init /\ lifted = {}

AuditBanStart(c, ip, dur) ==
    /\ BanStart(c, ip, dur)
    /\ lifted' = {x \in lifted : x[2] # ip}

\* unbanIp lifts the ban, unless a ban of the same IP is being written.
AuditUnbanStart(c, ip) ==
    /\ UnbanStart(c, ip)
    /\ lifted' = IF BanInFlight(ip) THEN lifted ELSE lifted \cup {<<ProcOf[c], ip>>}

\* An unbanIp that throws has lifted nothing.
AuditRedisFails(c) ==
    /\ RedisFails(c)
    /\ lifted' = IF call[c].pc = "unbanDelete"
                 THEN lifted \ {<<ProcOf[c], call[c].ip>>} ELSE lifted

AuditOther ==
    /\ \/ Tick
       \/ \E c \in Calls : \/ BanWrite(c) \/ CheckGet(c) \/ CheckResume(c) \/ CheckDelete(c)
                           \/ UnbanDelete(c) \/ ResetStart(c) \/ ResetKeys(c) \/ ResetDelete(c)
                           \/ \E ip \in IPs : CheckStart(c, ip)
    /\ UNCHANGED lifted

AuditNext ==
    \/ AuditOther
    \/ \E c \in Calls :
         \/ AuditRedisFails(c)
         \/ \E ip \in IPs : AuditUnbanStart(c, ip)
         \/ \E ip \in IPs, dur \in Durations : AuditBanStart(c, ip, dur)

AuditSpec == AuditInit /\ [][AuditNext]_auditVars

-----------------------------------------------------------------------------
\* What architecture/handlers.md says of unbanIp: "Remove a ban".  In the
\* process where it returned, and until somebody bans the IP again, no ban of
\* that IP is in force.
UnbanRemovesBan ==
    \A x \in lifted :
        (\A c \in Calls : ~(/\ ProcOf[c] = x[1] /\ call[c].ip = x[2]
                            /\ call[c].pc = "unbanDelete"))
        => ~(expiry[x[1]][x[2]] # 0 /\ InForce(now, expiry[x[1]][x[2]]))
=============================================================================
