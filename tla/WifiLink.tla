------------------------------- MODULE WifiLink -------------------------------
(***************************************************************************)
(* main/connectivity/wifi_remote_manager.c: the Wi-Fi event handler, which *)
(* runs on the event-loop task, and the main task that waits for its bits  *)
(* while the device boots and restarts it when they do not come.           *)
(***************************************************************************)
EXTENDS Naturals

CONSTANTS
    MaxRetry,    \* reconnections in a row, 5 in the code
    MaxRestarts  \* bound on the restarts of a behaviour

ASSUME WifiConstants == MaxRetry \in Nat /\ MaxRestarts \in Nat

VARIABLES
    wifi,     \* the station: an attempt is under way, up, or left alone
    retries,  \* s_retry_count
    bits,     \* s_wifi_event_group
    boot,     \* the main task: in wifi_remote_manager_start, past it, or failed
    failures, \* history: disconnections since the last address
    restarts  \* history: how often the device restarted

wifiVars == <<wifi, retries, bits, boot, failures, restarts>>

Bit == {"connected", "fail"}

WifiInit ==
    /\ wifi = "connecting" /\ retries = 0 /\ bits = {} /\ boot = "wifi"
    /\ failures = 0 /\ restarts = 0

\* IP_EVENT_STA_GOT_IP.
\* Fault: the budget of the next outage is not refilled.
GotIpKeepsCount ==
    /\ wifi = "connecting" /\ wifi' = "up"
    /\ bits' = bits \union {"connected"} /\ failures' = 0
    /\ UNCHANGED <<retries, boot, restarts>>
GotIp ==
    /\ wifi = "connecting" /\ wifi' = "up"
    /\ retries' = 0 /\ bits' = bits \union {"connected"} /\ failures' = 0
    /\ UNCHANGED <<boot, restarts>>

\* WIFI_EVENT_STA_DISCONNECTED: a lost link, or an attempt that came to nothing.
StaDisconnected ==
    /\ wifi \in {"connecting", "up"}
    /\ failures' = failures + 1
    /\ \/ /\ retries < MaxRetry /\ retries' = retries + 1 /\ wifi' = "connecting"
          /\ bits' = bits \ {"connected"}
       \/ /\ retries >= MaxRetry /\ wifi' = "given_up" /\ UNCHANGED retries
          /\ bits' = (bits \ {"connected"}) \union {"fail"}
    /\ UNCHANGED <<boot, restarts>>

\* xEventGroupWaitBits returns in wifi_remote_manager_start; after 30 s it does so
\* whatever the bits are. A failure is boot_fail's, which ends in esp_restart.
WifiWaitEnds ==
    /\ boot = "wifi"
    /\ boot' = IF "connected" \in bits THEN "started" ELSE "failed"
    /\ UNCHANGED <<wifi, retries, bits, failures, restarts>>

\* esp_restart, or a loss of power.
WifiRestart ==
    /\ restarts < MaxRestarts /\ restarts' = restarts + 1
    /\ wifi' = "connecting" /\ retries' = 0 /\ bits' = {} /\ boot' = "wifi"
    /\ failures' = 0

WifiTypeOK ==
    /\ wifi \in {"connecting", "up", "given_up"} /\ retries \in 0..MaxRetry
    /\ bits \subseteq Bit /\ boot \in {"wifi", "started", "failed"}
    /\ failures \in 0..(MaxRetry + 1) /\ restarts \in 0..MaxRestarts

\* Wi-Fi is left alone for good only after MaxRetry + 1 disconnections in a row:
\* an outage that ends gives every later one its whole budget again.
GivesUpOnlyInARow == wifi = "given_up" => failures = MaxRetry + 1

===============================================================================
