------------------------------ MODULE SettingCache ------------------------------
(***************************************************************************)
(* The push rules of one operation, platform and user type, and their      *)
(* entry in the Redis cache that SettingService keeps in front of the      *)
(* table. A cached read looks, selects and stores in three steps, a write  *)
(* changes the table and then evicts in two more; nothing locks the cache  *)
(* (RedisConfig uses the non-locking writer). A rule is named by the       *)
(* channel it pushes through.                                              *)
(***************************************************************************)
EXTENDS Naturals

CONSTANTS
    Channels,   \* channels a rule may name
    Enabled,    \* channels of the rules there are at first, if there are any
    Removable   \* bound: rules that are deleted

ASSUME SettingAssumption == Enabled \subseteq Channels

VARIABLES
    rules,    \* channels of the enabled rules in the table
    entry,    \* the cache entry: none, or one list of rules
    deleting, \* rules whose deletion is in the table and not evicted yet
    clearing, \* rules whose eviction has found the key and will delete it
    gone,     \* history: rules whose deletion has returned, or found no key
    overlap   \* history: a read stored a rule that was gone

cacheVars == <<rules, entry, deleting, clearing, gone, overlap>>

CacheTypeOK ==
    /\ rules \subseteq Channels
    /\ entry \in SUBSET SUBSET Channels /\ \A a, b \in entry : a = b
    /\ deleting \subseteq Channels /\ clearing \subseteq Channels /\ gone \subseteq Channels
    /\ overlap \in BOOLEAN

CacheInit ==
    /\ rules \in {{}, Enabled}
    /\ entry = {}
    /\ deleting = {} /\ clearing = {} /\ gone = {}
    /\ overlap = FALSE

\* @Cacheable: the entry of the key, if there is one.
Hit(value) == value \in entry /\ UNCHANGED cacheVars
Missed == entry = {} /\ UNCHANGED cacheVars

\* selectEnableByCondition on the table, behind a miss.
Select(value) == value = rules /\ UNCHANGED cacheVars

\* The value read is stored over whatever the cache holds by then.
Store(value) ==
    /\ entry' = {value}
    /\ overlap' = (overlap \/ value \cap gone # {})
    /\ UNCHANGED <<rules, deleting, clearing, gone>>

\* deleteById, behind SettingController.deleteMsgPush.
DeleteRow(c) ==
    /\ c \in rules \cap Removable
    /\ rules' = rules \ {c}
    /\ deleting' = deleting \cup {c}
    /\ UNCHANGED <<entry, clearing, gone, overlap>>

\* Mutant: the method does not evict.
EvictNothing(c) ==
    /\ c \in deleting
    /\ deleting' = deleting \ {c} /\ gone' = gone \cup {c}
    /\ UNCHANGED <<rules, entry, clearing, overlap>>

\* @CacheEvict(allEntries), when deleteById has returned: the writer asks for the
\* keys of the cache ...
EvictKeys(c) ==
    /\ c \in deleting
    /\ deleting' = deleting \ {c}
    /\ IF entry = {}
       THEN gone' = gone \cup {c} /\ UNCHANGED clearing
       ELSE clearing' = clearing \cup {c} /\ UNCHANGED gone
    /\ UNCHANGED <<rules, entry, overlap>>

\* ... and deletes what it was told of.
EvictDel(c) ==
    /\ c \in clearing
    /\ entry' = {}
    /\ clearing' = clearing \ {c} /\ gone' = gone \cup {c}
    /\ UNCHANGED <<rules, deleting, overlap>>

\* Mutant: entries have no time to live.
ExpireNever == entry # {} /\ entry' = entry /\ UNCHANGED <<rules, deleting, clearing, gone, overlap>>

\* Redis drops the entry when its two hours are over.
Expire == entry # {} /\ entry' = {} /\ UNCHANGED <<rules, deleting, clearing, gone, overlap>>

================================================================================
