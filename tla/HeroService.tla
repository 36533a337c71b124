---------------------------- MODULE HeroService ----------------------------
(***************************************************************************)
(* apps/api/src/hero/hero.service.ts: the home page's images, an array of  *)
(* asset ids in the one hero_settings row, mirrored in media_usages.       *)
(***************************************************************************)
EXTENDS MediaStore

HeroUsages == {u \in usages : u.entity = HERO}

(* updateSettings, its check: every image is live; more than one only in   *)
(* slider mode.                                                            *)
HeroCheck(h, ids) ==
  /\ \A a \in ids : Live(a)
  /\ Begin(h, "hero", [op |-> "hero", assets |-> ids])
  /\ UNCHANGED <<tables, remote>>

(* Its transaction, first statement: deleteMany of the usages it sees.     *)
HeroDelete(h) ==
  LET r == req[h] IN
  /\ r.op = "hero"
  /\ Proceed(h, [op |-> "save", assets |-> r.assets, old |-> HeroUsages])
  /\ UNCHANGED <<tables, remote>>

(* Mutant: usages are only ever added. *)
HeroCommitAdds(h) ==
  LET r == req[h] IN
  /\ r.op = "save"
  /\ usages' = usages \cup [asset : r.assets, entity : {HERO}]
  /\ heroIds' = r.assets
  /\ Finish(h)
  /\ UNCHANGED <<asset, gallery, retired, remote>>

(* Ends, having deleted the usages gone.  Another save that found them too *)
(* was waiting for this one, and finds them deleted: one inserted again    *)
(* for the same image is not the row that it saw.                          *)
FinishDeleting(h, gone) ==
  /\ req' = [k \in Slots |->
       IF k = h THEN Idle
       ELSE IF req[k].op = "save" THEN [req[k] EXCEPT !.old = @ \ gone]
       ELSE req[k]]
  /\ UNCHANGED <<workload, overlapped, faults>>

(* createMany, upsert and commit.  A usage of an image that another save   *)
(* inserted meanwhile breaks the unique index, one of an image that is     *)
(* gone the foreign key: then everything is rolled back.                   *)
HeroCommit(h) ==
  LET r == req[h]
      kept == usages \ r.old
      new == [asset : r.assets, entity : {HERO}]
  IN
  /\ r.op = "save"
  /\ IF kept \cap new = {} /\ \A a \in r.assets : HasRow(a)
     THEN usages' = kept \cup new /\ heroIds' = r.assets /\ FinishDeleting(h, r.old)
     ELSE UNCHANGED <<usages, heroIds>> /\ Finish(h)
  /\ UNCHANGED <<asset, gallery, retired, remote>>

(* getSettings: what the home page is given to show. *)
HeroShown == {a \in heroIds : Live(a)}

HeroNext ==
  \E h \in Slots :
    \/ \E ids \in SUBSET Assets : HeroCheck(h, ids)
    \/ HeroDelete(h)
    \/ HeroCommit(h)
=============================================================================
