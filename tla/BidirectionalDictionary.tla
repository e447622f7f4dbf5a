----------------------- MODULE BidirectionalDictionary -----------------------
(***************************************************************************)
(* BidirectionalDictionary, in C# and in C++: two dictionaries, one for     *)
(* each direction.  A call that throws has changed nothing before.  Only    *)
(* the C# class has an indexer that sets.                                   *)
(***************************************************************************)
CONSTANTS TKey, TValue

VARIABLES
  m_Forward, (* The values by key.                                           *)
  m_Reverse  (* The keys by value.                                           *)

dictionaryVars == <<m_Forward, m_Reverse>>

Assigned(dictionary, x, y) ==
  [z \in DOMAIN dictionary \union {x} |-> IF z = x THEN y ELSE dictionary[z]]
Removed(dictionary, gone) == [z \in DOMAIN dictionary \ gone |-> dictionary[z]]

DictionaryInit ==
  /\ m_Forward = [key \in {} |-> CHOOSE value \in TValue : TRUE]
  /\ m_Reverse = [value \in {} |-> CHOOSE key \in TKey : TRUE]

Add(key, value) ==
  /\ key \notin DOMAIN m_Forward /\ value \notin DOMAIN m_Reverse
  /\ m_Forward' = Assigned(m_Forward, key, value)
  /\ m_Reverse' = Assigned(m_Reverse, value, key)

RemoveByKey(key) ==
  /\ key \in DOMAIN m_Forward
  /\ m_Forward' = Removed(m_Forward, {key})
  /\ m_Reverse' = Removed(m_Reverse, {m_Forward[key]})

RemoveByValue(value) ==
  /\ value \in DOMAIN m_Reverse
  /\ m_Reverse' = Removed(m_Reverse, {value})
  /\ m_Forward' = Removed(m_Forward, {m_Reverse[value]})

Clear ==
  /\ m_Forward' = Removed(m_Forward, DOMAIN m_Forward)
  /\ m_Reverse' = Removed(m_Reverse, DOMAIN m_Reverse)

(* The key's old value goes, and then the key the value had. *)
OldValue(key) == {m_Forward[k] : k \in {key} \intersect DOMAIN m_Forward}
OldKey(key, value) ==
  {m_Reverse[v] : v \in {value} \intersect (DOMAIN m_Reverse \ OldValue(key))}

(* Wrong variant: the key the value had stays. *)
SetItem_KeepsOldKey(key, value) ==
  /\ m_Forward' = Assigned(m_Forward, key, value)
  /\ m_Reverse' = Assigned(Removed(m_Reverse, OldValue(key)), value, key)

(* The indexer's setter. *)
SetItem(key, value) ==
  /\ m_Forward' = Assigned(Removed(m_Forward, OldKey(key, value)), key, value)
  /\ m_Reverse' = Assigned(Removed(m_Reverse, OldValue(key)), value, key)

DictionaryNext ==
  \/ \E key \in TKey, value \in TValue : Add(key, value) \/ SetItem(key, value)
  \/ \E key \in TKey : RemoveByKey(key)
  \/ \E value \in TValue : RemoveByValue(value)
  \/ Clear

DictionarySpec == DictionaryInit /\ [][DictionaryNext]_dictionaryVars

-----------------------------------------------------------------------------

DictionaryTypeOK ==
  /\ DOMAIN m_Forward \subseteq TKey /\ DOMAIN m_Reverse \subseteq TValue
  /\ \A key \in DOMAIN m_Forward : m_Forward[key] \in TValue
  /\ \A value \in DOMAIN m_Reverse : m_Reverse[value] \in TKey

(* After any calls, whatever values the indexer moves between keys, the two
   dictionaries hold the same pairs, one for each key and each value. *)
DirectionsAgree ==
  /\ \A key \in DOMAIN m_Forward :
       m_Forward[key] \in DOMAIN m_Reverse /\ m_Reverse[m_Forward[key]] = key
  /\ \A value \in DOMAIN m_Reverse :
       m_Reverse[value] \in DOMAIN m_Forward /\ m_Forward[m_Reverse[value]] = value
=============================================================================
