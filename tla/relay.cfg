CONSTANTS
  Webhook = {hook}
  NoWebhook = NoWebhook
  Alert = {alert}
  SeverityOf <- Severities
SPECIFICATION Spec
PROPERTY AlertsAreRelayed
CHECK_DEADLOCK FALSE
