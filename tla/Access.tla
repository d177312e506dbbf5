------------------------------- MODULE Access -------------------------------
(***************************************************************************)
(* Whose request it is and whether that address may come in: extractClientIp,*)
(* checkIpCountry and isIpAllowed of utils.ts, checkIpAccess of            *)
(* ip-access.ts, and the lookups of the GeoIP manager they use.            *)
(*                                                                         *)
(* An entry of a list is an address or a network; both are the set of      *)
(* addresses they cover, and a malformed entry makes the parser throw.     *)
(***************************************************************************)
EXTENDS Naturals, Sequences, FiniteSets, SequencesExt

CONSTANTS
    Address,          \* address -> [country, cloud, loopback]: {} or {c}, the providers
                      \* that publish it, 127.0.0.0/8
    Entry,            \* list entry -> the addresses covered, or "malformed"
    AccessConfigs,    \* [trusted, depth, whitelist, blacklist, blockedCountries,
                      \* whitelistCountries, cloud]: lists are sequences
    Journeys          \* [client, claims, hops]: an address, the X-Forwarded-For it sends,
                      \* and the proxies that the request comes through

\* What comes through a proxy comes from an address, which the proxy appends.
ASSUME AccessAssumption ==
    /\ \A c \in AccessConfigs : c.depth \in Nat \ {0}
    /\ \A j \in Journeys : /\ j.claims \in Seq(STRING) /\ j.hops \in Seq(STRING)
                           /\ j.hops # <<>> => j.client \in DOMAIN Address

VARIABLES
    access,           \* the configuration
    journey,
    readerOpen,       \* the GeoIP database is open
    verdict           \* {} or the identity found and the answers given about it

accessVars == <<access, journey, readerOpen, verdict>>

Malformed == {"malformed"}
IsAddress(ip) == ip \in DOMAIN Address

\* The list covers ip; entries are tried in order, and one that is malformed throws.
Covering(list, ip) == {i \in DOMAIN list : Entry[list[i]] # Malformed /\ ip \in Entry[list[i]]}
ThrowsOn(list, ip) ==
    \E i \in DOMAIN list : Entry[list[i]] = Malformed /\ \A j \in Covering(list, ip) : j > i
InList(list, ip) == Covering(list, ip) # {}

-----------------------------------------------------------------------------
\* isTrustedProxy passes over malformed entries.
IsTrustedProxy(c, ip) == InList(c.trusted, ip)

\* Mutant: one hop too far to the left.
ForwardedEntryBeyond(list, depth) ==
    IF list = <<>> THEN {}
    ELSE {list[IF Len(list) <= depth THEN 1 ELSE Len(list) - depth]}

\* extractFromForwardedHeader: counted from the right, the first if there are too few.
ForwardedEntry(list, depth) ==
    IF list = <<>> THEN {}
    ELSE {list[IF Len(list) < depth THEN 1 ELSE Len(list) - depth + 1]}

\* Each proxy appends the address it was called from; the last one connects to us.
Connecting(j) == IF j.hops = <<>> THEN j.client ELSE Last(j.hops)
Forwarded(j) == IF j.hops = <<>> THEN j.claims ELSE j.claims \o <<j.client>> \o Front(j.hops)

\* extractClientIp
ExtractClientIp(c, j) ==
    LET entry == ForwardedEntry(Forwarded(j), c.depth)
    IN IF Connecting(j) = "none" THEN "unknown"
       ELSE IF IsTrustedProxy(c, Connecting(j)) /\ entry # {} /\ \A e \in entry : IsAddress(e)
       THEN CHOOSE e \in entry : TRUE
       ELSE Connecting(j)

-----------------------------------------------------------------------------
\* getCountry: {} without a reader, without an entry, or when the lookup fails.
GetCountry(ip, open) == IF open /\ IsAddress(ip) THEN Address[ip].country ELSE {}

CountryRules(c) == c.blockedCountries \cup c.whitelistCountries

\* checkIpCountry: a whitelist outranks the blocked countries, and an address without a
\* country passes both.
CountryBlocked(c, ip, open) ==
    LET country == GetCountry(ip, open)
    IN /\ CountryRules(c) # {}
       /\ ~(IsAddress(ip) /\ Address[ip].loopback)
       /\ country # {}
       /\ IF c.whitelistCountries # {} THEN country \cap c.whitelistCountries = {}
          ELSE country \subseteq c.blockedCountries

\* checkIpCountry opens the database if it is not open: it may succeed or not.
AsksForReader(c, ip) ==
    CountryRules(c) # {} /\ ~(IsAddress(ip) /\ Address[ip].loopback) /\ ~readerOpen

\* checkCountryAccess of the GeoIP manager: no country denies in whitelist mode.
CheckCountryAccess(ip, blocked, whitelist, open) ==
    LET country == GetCountry(ip, open)
    IN IF country = {} THEN whitelist = {}
       ELSE (whitelist = {} \/ country \subseteq whitelist) /\ country \cap blocked = {}

\* isIpAllowed: the blacklist, the whitelist, the country.
IsIpAllowed(c, ip, open) ==
    /\ IsAddress(ip)
    /\ ~ThrowsOn(c.blacklist, ip) /\ ~InList(c.blacklist, ip)
    /\ c.whitelist # <<>> => (~ThrowsOn(c.whitelist, ip) /\ InList(c.whitelist, ip))
    /\ ~CountryBlocked(c, ip, open)

\* checkUnknownIdentityAccess
UnknownAllowed(c) == c.whitelist = <<>> /\ c.whitelistCountries = {}

\* checkIpAccess: the blacklist counts only without a whitelist.
ListVerdict(c, ip) ==
    IF c.whitelist # <<>> THEN ~ThrowsOn(c.whitelist, ip) /\ InList(c.whitelist, ip)
    ELSE ~ThrowsOn(c.blacklist, ip) /\ ~InList(c.blacklist, ip)

\* checkCloudProvidersDetail
CloudBlocked(c, ip) == Address[ip].cloud \cap c.cloud # {}

\* A whitelisted address skips the verdict on its country.
CheckIpAccess(c, ip, open) ==
    IF ip = "unknown" THEN UnknownAllowed(c)
    ELSE /\ IsAddress(ip)
         /\ ListVerdict(c, ip)
         /\ c.whitelist # <<>> \/ ~CountryBlocked(c, ip, open)
         /\ ~CloudBlocked(c, ip)

-----------------------------------------------------------------------------
AccessInit ==
    /\ access \in AccessConfigs /\ journey \in Journeys
    /\ readerOpen \in BOOLEAN
    /\ verdict = {}

Judge ==
    LET ip == ExtractClientIp(access, journey)
    IN /\ verdict = {}
       /\ readerOpen' \in IF AsksForReader(access, ip) THEN BOOLEAN ELSE {readerOpen}
       /\ verdict' = {[ip |-> ip,
                       allowed |-> IsIpAllowed(access, ip, readerOpen'),
                       checked |-> CheckIpAccess(access, ip, readerOpen'),
                       country |-> CheckCountryAccess(ip, access.blockedCountries,
                                                      access.whitelistCountries, readerOpen')]}
       /\ UNCHANGED <<access, journey>>

AccessNext == Judge

AccessSpec == AccessInit /\ [][AccessNext]_accessVars

-----------------------------------------------------------------------------
\* Whatever a client claims in X-Forwarded-For, a request that came through as many
\* trusted proxies as trustedProxyDepth says is counted against the address it was sent
\* from, and one that came through none against the address that connects
\* (extractClientIp, comment at utils.ts:209-214).
ClientIsNotItsClaim ==
    \A v \in verdict :
        (Connecting(journey) # "none")
          => /\ (journey.hops # <<>> /\ Len(journey.hops) = access.depth
                  /\ \A i \in DOMAIN journey.hops : IsTrustedProxy(access, journey.hops[i]))
                    => v.ip = journey.client
             /\ (journey.hops = <<>> /\ ~IsTrustedProxy(access, journey.client))
                    => v.ip = journey.client

\* The two access checks give a known address one answer, except where a whitelist is set
\* or the cloud tier decides (ip-access.ts:9-21).
AccessChecksAgree ==
    \A v \in verdict :
        (v.ip # "unknown" /\ access.whitelist = <<>> /\ access.cloud = {})
            => v.allowed = v.checked

\* The address the checks judge is the one the client really has, and the two places
\* that judge it answer alike.
IdentityIsEarned == ClientIsNotItsClaim /\ AccessChecksAgree
=============================================================================
