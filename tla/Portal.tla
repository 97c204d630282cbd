------------------------------- MODULE Portal -------------------------------
(***************************************************************************)
(* What the requests of the dashboard keep and change besides schedules    *)
(* and messages: workspaces, accounts, logins, templates, the tables of    *)
(* the limiters, the answer to the check for updates and the executable.   *)
(* They share no guard; a behaviour is one of one of them, chosen at the   *)
(* start.                                                                  *)
(***************************************************************************)
EXTENDS Workspaces, Sequences

CONSTANTS MaxAccounts,                          \* of Accounts
          ServerMode,
          LoginUsers, Sessions, Challenges, None, MaxKept,   \* of Logins
          MaxTemplates, MaxVersions, Contents,  \* of Templates
          Seed, Blank,
          Window, Limit, GlobalLimit,           \* of Limiter
          AssetLists, MaxOld,                   \* of Updater
          Tags                                  \* of UpdateCheck

ASSUME PortalAssumption ==
    /\ {MaxAccounts, MaxTemplates, MaxKept} \subseteq Nat
    /\ {MaxVersions, MaxOld} \subseteq Nat \ {0}
    /\ IsFiniteSet(Requests)
    /\ None \notin LoginUsers \cup Challenges
    /\ Seed \in Contents /\ Blank \notin Contents
    /\ Window \in Nat \ {0} /\ {Limit, GlobalLimit} \subseteq Nat
    /\ AssetLists \subseteq Seq({"tar.gz", "zip", "binary", "deb", "apk"})
    /\ Tags \in Seq([numbers : Seq(Nat), suffix : Seq([number : BOOLEAN, n : Nat])])
    /\ Tags # <<>>

VARIABLES part,
          user, open, registration, crowned, raced,
          there, tfa, session, challenge, login, spent, most, kept,
          template, versions, silent, edit, had, overlapped, lost,
          smart, visits, globalVisits, sweep, passed, answer,
          file, self, apply, running, mishaps,
          latest, cached, fresh, view

Accounts  == INSTANCE Accounts WITH MaxUsers <- MaxAccounts, request <- registration
Logins    == INSTANCE Logins WITH Users <- LoginUsers, request <- login
Templates == INSTANCE Templates WITH request <- edit
Limiter   == INSTANCE Limiter WITH Keys <- Requests
Updater   == INSTANCE Updater WITH Appliers <- Requests, Releases <- AssetLists
Checks    == INSTANCE UpdateCheck WITH Viewers <- Requests

workspaces == <<account, ws, member, active, request, orphaned>>
accounts   == <<user, open, registration, crowned, raced>>
logins     == <<there, tfa, session, challenge, login, spent, most, kept>>
templates  == <<template, versions, silent, edit, had, overlapped, lost>>
limiter    == <<smart, visits, globalVisits, sweep, passed, answer>>
updater    == <<file, self, apply, running, mishaps>>
checks     == <<latest, cached, fresh, view>>

portal == <<part, workspaces, accounts, logins, templates, limiter, updater, checks>>

PortalInit ==
    /\ part \in {"workspaces", "accounts", "logins", "templates", "limiter", "updater", "checks"}
    /\ Init /\ Accounts!Init /\ Logins!Init /\ Templates!Init /\ Limiter!Init
    /\ Updater!Init /\ Checks!Init
    /\ part # "limiter" => ~smart

\* A step of one part leaves the others alone.
In(p, A) == part = p /\ A /\ part' = part

PortalNext ==
    \/ In("workspaces", Next)
         /\ UNCHANGED <<accounts, logins, templates, limiter, updater, checks>>
    \/ In("accounts", Accounts!Next)
         /\ UNCHANGED <<workspaces, logins, templates, limiter, updater, checks>>
    \/ In("logins", Logins!Next)
         /\ UNCHANGED <<workspaces, accounts, templates, limiter, updater, checks>>
    \/ In("templates", Templates!Next)
         /\ UNCHANGED <<workspaces, accounts, logins, limiter, updater, checks>>
    \/ In("limiter", Limiter!Next)
         /\ UNCHANGED <<workspaces, accounts, logins, templates, updater, checks>>
    \/ In("updater", Updater!Next)
         /\ UNCHANGED <<workspaces, accounts, logins, templates, limiter, checks>>
    \/ In("checks", Checks!Next)
         /\ UNCHANGED <<workspaces, accounts, logins, templates, limiter, updater>>

PortalSpec == PortalInit /\ [][PortalNext]_portal

PortalTypeOK ==
    CASE part = "workspaces" -> TypeOK
      [] part = "accounts"   -> Accounts!TypeOK
      [] part = "logins"     -> Logins!TypeOK
      [] part = "templates"  -> Templates!TypeOK
      [] part = "limiter"    -> Limiter!TypeOK
      [] part = "updater"    -> Updater!TypeOK
      [] part = "checks"     -> Checks!TypeOK

OneSuperadmin       == part = "accounts" => Accounts!OneSuperadmin
ChallengeOnce       == part = "logins" => Logins!ChallengeOnce
SecondFactorAsked   == Logins!SecondFactorAsked
AuditTrail          == part = "templates" => Templates!AuditTrail
AlwaysAText         == Templates!AlwaysAText
ExactLimits         == Limiter!ExactLimits
WorkingCopySurvives == part = "updater" => Updater!WorkingCopySurvives
FailureIsUndone     == Updater!FailureIsUndone
HonestAnswer        == part = "checks" => Checks!HonestAnswer
=============================================================================
