---------------------------- MODULE ThrLockTypes ----------------------------
(***************************************************************************)
(* enum thr_lock_type of include/thr_lock.h.  The code compares the types  *)
(* with < and <=, so they are their numbers.                               *)
(***************************************************************************)
EXTENDS Naturals

TL_UNLOCK                  == 0
TL_READ_DEFAULT            == 1
TL_READ                    == 2
TL_READ_WITH_SHARED_LOCKS  == 3
TL_READ_HIGH_PRIORITY      == 4
TL_READ_NO_INSERT          == 5
TL_WRITE_ALLOW_WRITE       == 6
TL_WRITE_ALLOW_READ        == 7
TL_WRITE_CONCURRENT_INSERT == 8
TL_WRITE_DELAYED           == 9
TL_WRITE_DEFAULT           == 10
TL_WRITE_LOW_PRIORITY      == 11
TL_WRITE                   == 12
TL_WRITE_ONLY              == 13

(* The types a request can carry; the two DEFAULT types exist only in the  *)
(* SQL parser.                                                             *)
ReadTypes == {TL_READ, TL_READ_WITH_SHARED_LOCKS, TL_READ_HIGH_PRIORITY,
              TL_READ_NO_INSERT}
WriteTypes == {TL_WRITE_ALLOW_WRITE, TL_WRITE_ALLOW_READ,
               TL_WRITE_CONCURRENT_INSERT, TL_WRITE_DELAYED,
               TL_WRITE_LOW_PRIORITY, TL_WRITE, TL_WRITE_ONLY}
RequestTypes == ReadTypes \cup WriteTypes

IsRead(lt) == lt <= TL_READ_NO_INSERT

(* The two write types the code treats alike: they exclude NO_INSERT reads *)
(* and several of them can be active at once.                              *)
InsertTypes == {TL_WRITE_CONCURRENT_INSERT, TL_WRITE_ALLOW_WRITE}
=============================================================================
