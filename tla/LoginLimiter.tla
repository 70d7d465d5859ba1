---------------------------- MODULE LoginLimiter ----------------------------
(***************************************************************************)
(* The limits on login attempts (server/login_limiter.go), as              *)
(* handleAuthLogin and handleServiceConfig use them.                       *)
(*                                                                         *)
(* A login reads the clock and the configuration first and is decided      *)
(* under loginLimiter.mu later; an administrator changes the limits and    *)
(* then resets the limiter, in two steps.                                  *)
(***************************************************************************)
EXTENDS Integers, Sequences, FiniteSets

CONSTANTS
    Ip,
    Login,      \* login requests handled at the same time
    Configs,    \* the limits [max, overall, cool] an administrator may set
    Window,     \* loginRateWindow
    MaxTime, MaxPatch,  \* bounds: clock, configuration changes
    Skew,       \* bound: how long a login takes from the clock to the mutex
    None

\* What is counted, of an address or of everybody; 0 stands for the zero time.
Counter == [attempts : Nat, ends : Nat, cool : Nat]

\* What the constants are, for every instance.
LimiterAssumption ==
    /\ IsFiniteSet(Ip)
    /\ Window \in Nat \ {0} /\ MaxTime \in Nat /\ Skew \in Nat /\ MaxPatch \in Nat
    /\ Configs \subseteq [max : Nat \ {0}, overall : Nat \ {0}, cool : Nat \ {0}]
    /\ None \notin (Ip \cup Configs \cup Counter)

VARIABLES
    clock,
    cfg,        \* the limits in appConfigStore
    byIP,       \* Ip -> Counter or None
    global,     \* a Counter
    login,      \* [pc, ip, now, cfg]
    reset,      \* the limiter has yet to be reset after a change
    patches,
    log         \* history: the allowed attempts of every address and (None) of
                \* everybody since the last reset or change: when, which one in
                \* its window, and the end of the cooldown it started, or 0

vars == <<clock, cfg, byIP, global, login, reset, patches, log>>

NoLogin == [pc |-> "idle", ip |-> None, now |-> 0, cfg |-> None]
Nobody == [i \in Ip |-> None]
Fresh == [attempts |-> 0, ends |-> 0, cool |-> 0]
Unlogged == [x \in Ip \cup {None} |-> <<>>]

Init ==
    /\ clock = 1
    /\ cfg \in Configs
    /\ byIP = Nobody /\ global = Fresh
    /\ login = [l \in Login |-> NoLogin]
    /\ reset = FALSE /\ patches = 0
    /\ log = Unlogged

-----------------------------------------------------------------------------
tick ==
    /\ clock < MaxTime
    /\ \A l \in Login : login[l].pc = "allow" => clock < login[l].now + Skew
    /\ clock' = clock + 1
    /\ UNCHANGED <<cfg, byIP, global, login, reset, patches, log>>

\* now := time.Now(), appCfg := s.appConfig.get()
handleAuthLogin(l, ip) ==
    /\ login[l].pc = "idle"
    /\ login' = [login EXCEPT ![l] = [pc |-> "allow", ip |-> ip, now |-> clock, cfg |-> cfg]]
    /\ UNCHANGED <<clock, cfg, byIP, global, reset, patches, log>>

KnownIn(ips) == {i \in Ip : ips[i] # None}

\* len(l.byIP) >= cfg.WebLoginMaxTriesOverall
Full(ips, c) == Cardinality(KnownIn(ips)) >= c.overall

\* The limiter after what allow does before it looks at the address: a global
\* cooldown that is over resets everything, a window that is over begins anew.
Ready(now) ==
    LET over == global.cool # 0
        g == IF over THEN Fresh ELSE global
    IN  [ips |-> IF over THEN Nobody ELSE byIP,
         g |-> IF g.ends = 0 \/ now >= g.ends
               THEN [attempts |-> 0, ends |-> now + Window, cool |-> g.cool] ELSE g]

startGlobalCooldown(now, c) ==
    /\ global' = [attempts |-> 0, ends |-> 0, cool |-> now + c.cool]
    /\ byIP' = Nobody

AtLimit(attempts, limit) == attempts >= limit

Finish(l) == login' = [login EXCEPT ![l] = NoLogin]

\* The global cooldown, or the one of the address, is not over.
rejectCooling(l) ==
    LET now == login[l].now
        ip == login[l].ip
        s == Ready(now)
    IN  /\ login[l].pc = "allow"
        /\ \/ now < global.cool /\ UNCHANGED <<byIP, global>>
           \/ /\ now >= global.cool
              /\ s.ips[ip] # None /\ now < s.ips[ip].cool
              /\ byIP' = s.ips /\ global' = s.g
        /\ Finish(l)
        /\ UNCHANGED <<clock, cfg, reset, patches, log>>

\* A new address when the map is full: everybody is locked out.
rejectFull(l) ==
    LET now == login[l].now
        c == login[l].cfg
        s == Ready(now)
    IN  /\ login[l].pc = "allow" /\ now >= global.cool
        /\ s.ips[login[l].ip] = None
        /\ Full(s.ips, c)
        /\ startGlobalCooldown(now, c)
        /\ Finish(l)
        /\ UNCHANGED <<clock, cfg, reset, patches, log>>

\* The attempt is counted; the one that reaches a limit starts the cooldown.
allow(l) ==
    LET now == login[l].now
        ip == login[l].ip
        c == login[l].cfg
        s == Ready(now)
        old == s.ips[ip]
        state == IF old = None \/ old.cool # 0 \/ now >= old.ends
                 THEN [attempts |-> 1, ends |-> now + Window, cool |-> 0]
                 ELSE [old EXCEPT !.attempts = @ + 1]
        mine == [state EXCEPT !.cool = IF AtLimit(state.attempts, c.max) THEN now + c.cool ELSE @]
        all == s.g.attempts + 1
    IN  /\ login[l].pc = "allow" /\ now >= global.cool
        /\ old # None => now >= old.cool
        /\ old = None => ~Full(s.ips, c)
        /\ IF AtLimit(all, c.overall)
           THEN startGlobalCooldown(now, c)
           ELSE /\ global' = [s.g EXCEPT !.attempts = all]
                /\ byIP' = [s.ips EXCEPT ![ip] = mine]
        /\ log' = [log EXCEPT
               ![ip] = Append(@, [at |-> now, n |-> mine.attempts, cool |-> mine.cool]),
               ![None] = Append(@, [at |-> now, n |-> all,
                                    cool |-> IF AtLimit(all, c.overall) THEN now + c.cool ELSE 0])]
        /\ Finish(l)
        /\ UNCHANGED <<clock, cfg, reset, patches>>

\* Mutation: an address is forgotten when its window ends, cooldown or not.
CleanupByWindow ==
    LET over == global.cool # 0 /\ clock >= global.cool
    IN  /\ byIP' = [i \in Ip |-> IF over \/ (byIP[i] # None /\ clock >= byIP[i].ends)
                                 THEN None ELSE byIP[i]]
        /\ global' = IF over THEN Fresh
                     ELSE IF global.ends # 0 /\ clock >= global.ends
                          THEN [Fresh EXCEPT !.cool = global.cool] ELSE global
        /\ UNCHANGED <<clock, cfg, login, reset, patches, log>>

\* runJanitor, every Window.
cleanup ==
    LET over == global.cool # 0 /\ clock >= global.cool
        old(s) == clock >= s.ends /\ clock >= s.cool
    IN  /\ byIP' = [i \in Ip |-> IF over \/ (byIP[i] # None /\ old(byIP[i]))
                                 THEN None ELSE byIP[i]]
        /\ global' = IF over THEN Fresh
                     ELSE IF global.ends # 0 /\ clock >= global.ends
                          THEN [Fresh EXCEPT !.cool = global.cool] ELSE global
        /\ UNCHANGED <<clock, cfg, login, reset, patches, log>>

\* handleServiceConfig: the new limits are in force, then the limiter is reset.
updateConfig(c) ==
    /\ patches < MaxPatch /\ ~reset /\ c # cfg
    /\ cfg' = c /\ reset' = TRUE /\ patches' = patches + 1
    /\ log' = Unlogged
    /\ UNCHANGED <<clock, byIP, global, login>>

resetLimiter ==
    /\ reset /\ reset' = FALSE
    /\ byIP' = Nobody /\ global' = Fresh
    /\ log' = Unlogged
    /\ UNCHANGED <<clock, cfg, login, patches>>

Next ==
    \/ tick \/ cleanup \/ resetLimiter
    \/ \E c \in Configs : updateConfig(c)
    \/ \E l \in Login :
          \/ \E ip \in Ip : handleAuthLogin(l, ip)
          \/ rejectCooling(l) \/ rejectFull(l) \/ allow(l)

Spec == Init /\ [][Next]_vars

-----------------------------------------------------------------------------
\* The counters stay below the limits in force, and nothing is remembered of the
\* addresses while everybody is locked out.
TypeOK ==
    /\ clock \in Nat /\ cfg \in Configs /\ reset \in BOOLEAN
    /\ byIP \in [Ip -> Counter \cup {None}] /\ global \in Counter
    /\ \A i \in KnownIn(byIP) : byIP[i].attempts # 0
    /\ \E c \in Configs : global.attempts < c.overall
    /\ global.cool # 0 => byIP = Nobody /\ global.attempts = 0

\* Addresses outlive the windows they were counted in, until runJanitor comes;
\* still their map never outgrows the largest limit that was in force (the
\* explicit cap in allow), whatever addresses come and however it is changed.
MapIsBounded == \E c \in Configs : Cardinality(KnownIn(byIP)) <= c.overall

Limit(x) == IF x = None THEN cfg.overall ELSE cfg.max

\* However attempts fall into windows, cooldowns and clean-ups, there is a window
\* between an attempt and the one that makes twice the limit with it, for everybody
\* and for every address, as long as the cooldown is not shorter than the window;
\* only the time logins spend before they are decided is lost.
RateIsBounded ==
    patches = 0 /\ cfg.cool >= Window =>
        \A x \in Ip \cup {None} : \A a, b \in 1..Len(log[x]) :
            b >= a + 2 * Limit(x) - 1 => log[x][b].at + 2 * Skew >= log[x][a].at + Window

\* An address that has used up its attempts is not served again before its
\* cooldown is over, also when everybody is locked out and let in again
\* meanwhile, and nobody is before the cooldown of everybody is over.
CooldownIsServed ==
    patches = 0 => \A x \in Ip \cup {None} : \A a, b \in 1..Len(log[x]) :
        a < b => log[x][b].at + 2 * Skew >= log[x][a].cool
=============================================================================
