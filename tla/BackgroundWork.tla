--------------------------- MODULE BackgroundWork ---------------------------
(***************************************************************************)
(* The components that work in the background, and what they promise       *)
(* together.  They share no state, so that a behaviour of all of them is   *)
(* one that is a behaviour of each.                                        *)
(***************************************************************************)
EXTENDS IncidentAnalysis, ReportQueue, MailDispatch, AuxMonitor, SiteCheck, SiteCrawl,
        MonitoringRuntime

BackgroundSpec ==
    /\ AnalysisSpec /\ ReportSpec /\ MailSpec /\ MonitorSpec /\ CheckSpec /\ CrawlSpec
    /\ RuntimeSpec

-----------------------------------------------------------------------------
\* The type of every component's state.
BackgroundTypeOK ==
    /\ AnalysisTypeOK /\ ReportTypeOK /\ MailTypeOK /\ MonitorTypeOK /\ CheckTypeOK
    /\ CrawlTypeOK /\ RuntimeTypeOK

\* claimAnalysisBatch, claimPending, markAttemptFailed: both queues keep the promise of
\* LeasedWork: what is queued is served, and taken up a bounded number of times.
ImplementsLeasedWork == Analyses!Spec /\ Builds!Spec

\* dispatchToRecipients, runScheduledReport: nobody is mailed an alert or a report twice.
MailedOnce == AlertMailedOnce /\ ReportMailedOnce

\* The monitors keep track of their incidents, and their runners of what they heard.
MonitorsTellTheTruth == MonitorsKeepTrack /\ DomainAnswersCount /\ CertificateDefectsWin

\* A check, and a crawl, stay within what they are given, and report all they heard.
ProbesKeepTheirWord == CheckKeepsItsWord /\ CrawlKeepsItsWord
=============================================================================
